---- MODULE Spec2Model ----
(***************************************************************************)
(* A model of langchain's Elasticsearch engine, src/langchain/es_engine.py: *)
(* the mapping flattener find_fields, and the ESEngine index catalog with  *)
(* its schema formatter get_index_info, run against a small model of the   *)
(* Elasticsearch store it talks to. Every operation is one blocking call,  *)
(* so every operation is one action.                                       *)
(*                                                                         *)
(* Python values are represented as follows.                               *)
(*   - a dict whose iteration order matters (a mapping level, the result   *)
(*     of find_fields, custom_index_info) is a sequence of <<key, value>>  *)
(*     pairs with distinct keys, in insertion order;                       *)
(*   - a mapping node (the value under a field name) is a TLA+ record; the *)
(*     code only probes it with `in` and reads value["type"], so its own   *)
(*     key order is irrelevant; a value that is no dict is NonDict;        *)
(*   - a set is a set, a list is a sequence, a str is a string.            *)
(***************************************************************************)
EXTENDS Integers, Sequences, FiniteSets, TLC

(***************************************************************************)
(* Bounds of the model.                                                    *)
(***************************************************************************)
\* the largest number of nodes (field entries at any depth) of a mapping
\* tree handed to find_fields
MaxNodes == 3

\* field names and field types used to build mapping trees; field names hold
\* no "." (Elasticsearch expands a dotted field name into nested objects, so
\* get_mapping never returns one)
Keys == {"a", "b"}
Types == {"keyword", "text"}

(***************************************************************************)
(* Ordered dictionaries.                                                   *)
(***************************************************************************)
DictKeys(d) == {d[i][1] : i \in 1..Len(d)}

DictHas(d, k) == k \in DictKeys(d)

DictGet(d, k) == d[CHOOSE i \in 1..Len(d) : d[i][1] = k][2]

\* d[k] = v : an existing key keeps its position, a new key goes last
DictSet(d, k, v) ==
    IF DictHas(d, k)
    THEN [i \in 1..Len(d) |-> IF d[i][1] = k THEN <<k, v>> ELSE d[i]]
    ELSE Append(d, <<k, v>>)

\* sep.join(parts)
RECURSIVE Join(_, _)
Join(sep, parts) ==
    IF Len(parts) = 0 THEN ""
    ELSE IF Len(parts) = 1 THEN parts[1]
    ELSE parts[1] \o sep \o Join(sep, Tail(parts))

(***************************************************************************)
(* Mapping trees.                                                          *)
(***************************************************************************)
\* a value that is not a dict (isinstance(value, dict) is false)
NonDict == [nondict |-> TRUE]

\* a dict with none of the keys find_fields looks at
OtherDict == [enabled |-> FALSE]

IsDict(value) == "nondict" \notin DOMAIN value

\* the number of field entries of a mapping, at every depth
RECURSIVE Size(_)
Size(mapping) ==
    IF Len(mapping) = 0 THEN 0
    ELSE LET value == mapping[1][2]
             props == IF IsDict(value) /\ "properties" \in DOMAIN value
                      THEN Size(value["properties"]) ELSE 0
             flds  == IF IsDict(value) /\ "fields" \in DOMAIN value
                      THEN Size(value["fields"]) ELSE 0
         IN 1 + props + flds + Size(Tail(mapping))

\* every mapping tree of at most n field entries (MappingsOf), and the nodes
\* that stand for exactly c of them (NodesOf: the node itself and the c - 1
\* entries of its sub-mapping)
RECURSIVE MappingsOf(_)
NodesOf(c) ==
    IF c <= 1
    THEN {NonDict, OtherDict} \cup {[type |-> t] : t \in Types}
    ELSE LET subs == {m \in MappingsOf(c - 1) : Size(m) = c - 1} IN
         {[properties |-> m] : m \in subs}
         \cup {[type |-> t, properties |-> m] : t \in Types, m \in subs}
         \cup {[type |-> t, fields |-> m] : t \in Types, m \in subs}

MappingsOf(n) ==
    IF n <= 0 THEN {<<>>}
    ELSE {<<>>} \cup
         UNION { LET nodes == NodesOf(c)
                     rests == MappingsOf(n - c)
                 IN UNION { { <<<<k, v>>>> \o rest :
                              rest \in {m \in rests : ~DictHas(m, k)} }
                            : k \in Keys, v \in nodes }
                 : c \in 1..n }

(***************************************************************************)
(* find_fields                                                             *)
(***************************************************************************)
\* _find_fields going down `properties` without extending the path
RECURSIVE _find_fields_samepath(_, _, _)
_find_fields_samepath(mapping, current_path, all_fields) ==
    IF Len(mapping) = 0 THEN all_fields
    ELSE LET key   == mapping[1][1]
             value == mapping[1][2]
             path  == Append(current_path, key)
             after ==
                 IF ~IsDict(value) THEN all_fields
                 ELSE IF "properties" \in DOMAIN value
                 THEN _find_fields_samepath(value["properties"], current_path,
                                            all_fields)
                 ELSE IF "type" \in DOMAIN value
                 THEN LET recorded == DictSet(all_fields, Join(".", path),
                                              value["type"])
                      IN IF "fields" \in DOMAIN value
                         THEN _find_fields_samepath(value["fields"], path, recorded)
                         ELSE recorded
                 ELSE all_fields
         IN _find_fields_samepath(Tail(mapping), current_path, after)

\* _find_fields not going down `fields`
RECURSIVE _find_fields_nofields(_, _, _)
_find_fields_nofields(mapping, current_path, all_fields) ==
    IF Len(mapping) = 0 THEN all_fields
    ELSE LET key   == mapping[1][1]
             value == mapping[1][2]
             path  == Append(current_path, key)
             after ==
                 IF ~IsDict(value) THEN all_fields
                 ELSE IF "properties" \in DOMAIN value
                 THEN _find_fields_nofields(value["properties"], path, all_fields)
                 ELSE IF "type" \in DOMAIN value
                 THEN DictSet(all_fields, Join(".", path), value["type"])
                 ELSE all_fields
         IN _find_fields_nofields(Tail(mapping), current_path, after)

\* the inner function of find_fields; all_fields is the dict it fills
RECURSIVE _find_fields(_, _, _)
_find_fields(mapping, current_path, all_fields) ==
    IF Len(mapping) = 0 THEN all_fields
    ELSE LET key   == mapping[1][1]
             value == mapping[1][2]
             path  == Append(current_path, key)
             after ==
                 IF ~IsDict(value) THEN all_fields
                 ELSE IF "properties" \in DOMAIN value
                 THEN _find_fields(value["properties"], path, all_fields)
                 ELSE IF "type" \in DOMAIN value
                 THEN LET recorded == DictSet(all_fields, Join(".", path),
                                              value["type"])
                      IN IF "fields" \in DOMAIN value
                         THEN _find_fields(value["fields"], path, recorded)
                         ELSE recorded
                 ELSE all_fields
         IN _find_fields(Tail(mapping), current_path, after)

find_fields(mapping) == _find_fields(mapping, <<>>, <<>>)

(***************************************************************************)
(* The Elasticsearch store the engine is connected to.                     *)
(***************************************************************************)
\* the most documents the store holds, over all indices
MaxDocs == 2

\* the names the store may hold: indices and data streams
IndexNames == {"logs"}
StreamNames == {"metrics"}
Names == IndexNames \cup StreamNames

\* the names a caller passes in include_indices and ignore_indices: those of
\* the store and one the store never holds
FilterNames == Names \cup {"ghost"}

\* the n-th document indexed into an index (its _source), an ordered dict of
\* str -> str
DocSource(n) == << <<"msg", "event " \o ToString(n)>>, <<"lvl", "warn">> >>

\* values of sample_docs_in_index_info
SampleSizes == {0, 1, 2}

\* the description texts a caller registers in custom_index_info
CustomText(name) == "Custom description of " \o name

\* values of custom_index_info: None, or a dict of index name -> text
CustomInfos ==
    { <<>>,
      << <<"logs", CustomText("logs")>> >>,
      << <<"ghost", CustomText("ghost")>>, <<"metrics", CustomText("metrics")>> >> }

\* the mappings of the store's indices and of its data stream (held under the
\* name of the stream's backing index)
EsMappingKey(name) == IF name \in StreamNames THEN ".ds-" \o name \o "-000001" ELSE name

EsProperties(name) ==
    IF name = "logs"
    THEN << <<"host", [properties |-> << <<"name", [type |-> "keyword"]>> >>]>>,
            <<"msg", [type |-> "text",
                      fields |-> << <<"raw", [type |-> "keyword"]>> >>]>> >>
    ELSE << <<"cpu", [type |-> "float"]>> >>

\* indices.get_mapping(index=name): {key: {"mappings": {"properties": ...}}};
\* an index without fields has an empty "mappings"
EsGetMapping(name) ==
    << <<EsMappingKey(name),
         IF Len(EsProperties(name)) = 0
         THEN [mappings |-> <<>>]
         ELSE [mappings |-> [properties |-> EsProperties(name)]]>> >>

VARIABLES
    mapping,     \* find_fields: the mapping tree passed in
    all_fields,  \* find_fields: the dict returned
    pcFields,    \* "call" before find_fields has run on mapping, "done" after
    esIndices,   \* store: the names of the open indices
    esStreams,   \* store: the names of the data streams
    esDocs,      \* store: per name, the sequence of hits [_id, _source]
    engine,      \* the ESEngine object, or NoEngine
    ret,         \* what the last operation returned or raised
    calls        \* the calls the last operation issued to the store and to
                 \* the language model, in order

fieldVars == <<mapping, all_fields, pcFields>>
storeVars == <<esIndices, esStreams, esDocs>>
vars == <<mapping, all_fields, pcFields, esIndices, esStreams, esDocs,
          engine, ret, calls>>

NoEngine == [state |-> "none"]
FailedEngine == [state |-> "failed"]
NoRet == [op |-> "none", kind |-> "none"]

EsExists(name) == name \in esIndices \cup esStreams

TotalDocs(docs) == Len(docs["logs"]) + Len(docs["metrics"])

(***************************************************************************)
(* ElasticSearchDatabase: the helpers that change the store.               *)
(***************************************************************************)
create_index(index) ==
    /\ index \in IndexNames \ esIndices
    /\ esIndices' = esIndices \cup {index}
    /\ ret' = [op |-> "create_index", kind |-> "ok"]
    /\ calls' = <<[api |-> "indices.create", index |-> index]>>
    /\ UNCHANGED <<esStreams, esDocs, engine, fieldVars>>

delete_index(index) ==
    /\ index \in esIndices
    /\ esIndices' = esIndices \ {index}
    /\ esDocs' = [esDocs EXCEPT ![index] = <<>>]
    /\ ret' = [op |-> "delete_index", kind |-> "ok"]
    /\ calls' = <<[api |-> "indices.delete", index |-> index]>>
    /\ UNCHANGED <<esStreams, engine, fieldVars>>

\* the ids of the documents of a sequence of hits
DocIds(hits) == {hits[i]._id : i \in 1..Len(hits)}

\* the id the store gives a document indexed with no doc_id: one that no
\* document of the index holds
NewId(hits) == CHOOSE n \in 1..(Len(hits) + 1) :
                  n \notin DocIds(hits) /\ \A m \in 1..(n - 1) : m \in DocIds(hits)

\* es.index(index, body=doc) with no doc_id: the store creates a missing
\* index and gives the document an id of its own
index_document(index, doc) ==
    /\ index \in IndexNames
    /\ doc = DocSource(Len(esDocs[index]) + 1)
    /\ TotalDocs(esDocs) < MaxDocs
    /\ esIndices' = esIndices \cup {index}
    /\ esDocs' = [esDocs EXCEPT ![index] =
                    Append(@, [_id |-> NewId(@), _source |-> doc])]
    /\ ret' = [op |-> "index_document", kind |-> "ok",
               value |-> NewId(esDocs[index]), index |-> index, doc |-> doc]
    /\ calls' = <<[api |-> "index", index |-> index, body |-> doc]>>
    /\ UNCHANGED <<esStreams, engine, fieldVars>>

\* the partial document passed to update_document_by_id
UpdateDoc == << <<"lvl", "error">> >>

\* the source of a document after es.update(body={"doc": doc}): each key of
\* doc set to its value
RECURSIVE Merged(_, _)
Merged(source, doc) ==
    IF Len(doc) = 0 THEN source
    ELSE Merged(DictSet(source, doc[1][1], doc[1][2]), Tail(doc))

\* a returned dict, and the returned None
Some(d) == [some |-> d]
None == [none |-> TRUE]

\* es.get(index, id): the hits of the index that hold the id
EsGet(index, doc_id) ==
    IF index \in esIndices
    THEN SelectSeq(esDocs[index], LAMBDA hit : hit._id = doc_id)
    ELSE <<>>

\* get_document_by_id, lines 43-44: the result when es.get raises NotFoundError
NotFoundResult_empty == Some(<<>>)

NotFoundResult == None

get_document_by_id(index, doc_id) ==
    LET found == EsGet(index, doc_id) IN
    /\ ret' = [op |-> "get_document_by_id", kind |-> "ok",
               value |-> IF Len(found) = 0 THEN NotFoundResult
                         ELSE Some(found[1]._source),
               index |-> index, doc_id |-> doc_id]
    /\ calls' = <<[api |-> "get", index |-> index, id |-> doc_id]>>
    /\ UNCHANGED <<engine, storeVars, fieldVars>>

\* es.delete(index, id) raises NotFoundError when the index or the document
\* is missing
delete_document_by_id(index, doc_id) ==
    /\ IF Len(EsGet(index, doc_id)) = 0
       THEN /\ ret' = [op |-> "delete_document_by_id", kind |-> "NotFoundError",
                       index |-> index, doc_id |-> doc_id]
            /\ UNCHANGED esDocs
       ELSE /\ ret' = [op |-> "delete_document_by_id", kind |-> "ok",
                       index |-> index, doc_id |-> doc_id]
            /\ esDocs' = [esDocs EXCEPT ![index] =
                            SelectSeq(@, LAMBDA hit : hit._id # doc_id)]
    /\ calls' = <<[api |-> "delete", index |-> index, id |-> doc_id]>>
    /\ UNCHANGED <<esIndices, esStreams, engine, fieldVars>>

\* es.update(index, id, body={"doc": doc}) raises NotFoundError when the
\* index or the document is missing
update_document_by_id(index, doc_id, doc) ==
    /\ IF \A i \in 1..Len(esDocs[index]) : esDocs[index][i]._id # doc_id
       THEN /\ ret' = [op |-> "update_document_by_id", kind |-> "NotFoundError",
                       index |-> index, doc_id |-> doc_id]
            /\ UNCHANGED esDocs
       ELSE /\ ret' = [op |-> "update_document_by_id", kind |-> "ok",
                       index |-> index, doc_id |-> doc_id]
            /\ esDocs' = [esDocs EXCEPT ![index] =
                            [i \in 1..Len(esDocs[index]) |->
                               IF esDocs[index][i]._id = doc_id
                               THEN [_id |-> doc_id,
                                     _source |-> Merged(esDocs[index][i]._source, doc)]
                               ELSE esDocs[index][i]]]
    /\ calls' = <<[api |-> "update", index |-> index, id |-> doc_id,
                    body |-> [doc |-> doc]]>>
    /\ UNCHANGED <<esIndices, esStreams, engine, fieldVars>>

(***************************************************************************)
(* ESEngine                                                                *)
(***************************************************************************)
\* get_usable_index_names on the fields of an engine
get_usable_index_names_noinclude(self) ==
    self._all_indices \ self._ignore_indices

get_usable_index_names_refresh(self) ==
    IF self._include_indices # {}
    THEN self._include_indices
    ELSE (esIndices \cup esStreams) \ self._ignore_indices

get_usable_index_names(self) ==
    IF self._include_indices # {}
    THEN self._include_indices
    ELSE self._all_indices \ self._ignore_indices

_get_index_names == esIndices

_get_datastream_names == esStreams

\* __init__, lines 43-44: both filters given
FiltersConflict_overlap(include_indices, ignore_indices) ==
    include_indices \cap ignore_indices # {}

FiltersConflict(include_indices, ignore_indices) ==
    include_indices # {} /\ ignore_indices # {}

\* __init__, lines 48-51: the names of the store, and the calls that list them
Discover_always(datastream_support) ==
    [names |-> _get_index_names \cup _get_datastream_names,
     calls |-> <<[api |-> "get_alias"]>>
               \o (IF datastream_support
                   THEN <<[api |-> "get_data_stream"]>> ELSE <<>>)]

Discover_eager(datastream_support) ==
    [names |-> _get_index_names
               \cup (IF datastream_support THEN _get_datastream_names ELSE {}),
     calls |-> <<[api |-> "get_alias"], [api |-> "get_data_stream"]>>]

Discover(datastream_support) ==
    [names |-> _get_index_names
               \cup (IF datastream_support THEN _get_datastream_names ELSE {}),
     calls |-> <<[api |-> "get_alias"]>>
               \o (IF datastream_support
                   THEN <<[api |-> "get_data_stream"]>> ELSE <<>>)]

\* custom_index_info as __init__ keeps it: the entries of names in the store
KeptCustomInfo(custom_index_info, all) ==
    SelectSeq(custom_index_info, LAMBDA item : item[1] \in all)

\* ESEngine(connection, ignore_indices, include_indices,
\*          sample_docs_in_index_info, custom_index_info, datastream_support),
\* the one constructor call of a run. The arguments are of their annotated
\* types (so neither TypeError is raised); None and [] are both passed as {},
\* None and {} as <<>>. A call that raises leaves no engine behind.
Construct(ignore_indices, include_indices, sample_docs_in_index_info, custom_index_info, datastream_support) ==
    LET found == Discover(datastream_support)
        all == found.names
        missing_include == include_indices \ all
        missing_ignore  == ignore_indices \ all
        fields == [_all_indices |-> all,
                   _include_indices |-> include_indices,
                   _ignore_indices |-> ignore_indices]
        usable_indices == get_usable_index_names(fields)
        args == [ignore_indices |-> ignore_indices,
                 include_indices |-> include_indices,
                 datastream_support |-> datastream_support]
    IN
    /\ engine.state = "none"
    /\ IF FiltersConflict(include_indices, ignore_indices)
       THEN /\ engine' = FailedEngine
            /\ ret' = [op |-> "__init__", kind |-> "ValueError",
                       what |-> "both", missing |-> {}, args |-> args]
            /\ calls' = <<>>
       ELSE IF include_indices # {} /\ missing_include # {}
       THEN /\ engine' = FailedEngine
            /\ ret' = [op |-> "__init__", kind |-> "ValueError",
                       what |-> "include_indices", missing |-> missing_include,
                       args |-> args]
            /\ calls' = found.calls
       ELSE IF ignore_indices # {} /\ missing_ignore # {}
       THEN /\ engine' = FailedEngine
            /\ ret' = [op |-> "__init__", kind |-> "ValueError",
                       what |-> "ignore_indices", missing |-> missing_ignore,
                       args |-> args]
            /\ calls' = found.calls
       ELSE /\ engine' =
                [state |-> "ok",
                 _all_indices |-> all,
                 _include_indices |-> include_indices,
                 _ignore_indices |-> ignore_indices,
                 _usable_indices |-> IF usable_indices # {}
                                     THEN usable_indices ELSE all,
                 _sample_docs_in_index_info |-> sample_docs_in_index_info,
                 _custom_index_info |-> KeptCustomInfo(custom_index_info, all)]
            /\ ret' = [op |-> "__init__", kind |-> "ok", args |-> args]
            /\ calls' = found.calls
    /\ UNCHANGED <<storeVars, fieldVars>>

GetUsableIndexNames ==
    /\ engine.state = "ok"
    /\ ret' = [op |-> "get_usable_index_names", kind |-> "ok",
               value |-> get_usable_index_names(engine)]
    /\ calls' = <<>>
    /\ UNCHANGED <<engine, storeVars, fieldVars>>

\* str(d) of a dict of str -> str
PyStr(d) ==
    "{" \o Join(", ", [i \in 1..Len(d) |->
                          "'" \o d[i][1] \o "': '" \o d[i][2] \o "'"]) \o "}"

\* the permutations of a set, as sequences: the orders a for loop may visit it
Orders(S) ==
    {seq \in [1..Cardinality(S) -> S] : {seq[i] : i \in 1..Cardinality(S)} = S}

\* get_index_fields on the response of get_index_mapping
get_index_fields(response) ==
    IF Len(response) = 0 THEN find_fields(<<>>)
    ELSE LET first    == response[1][2]
             mappings == IF "mappings" \in DOMAIN first
                         THEN first["mappings"] ELSE <<>>
             props    == IF "properties" \in DOMAIN mappings
                         THEN mappings["properties"] ELSE <<>>
         IN find_fields(props)

\* _get_sample_docs: the _source of the hits of a match_all search of the
\* given size, which the store answers with its first `size` documents
_get_sample_docs_unbounded(index_name, size) ==
    [i \in 1..Len(esDocs[index_name]) |-> esDocs[index_name][i]._source]

_get_sample_docs(index_name, size) ==
    LET hits == SubSeq(esDocs[index_name], 1,
                       IF size < Len(esDocs[index_name])
                       THEN size ELSE Len(esDocs[index_name]))
    IN [i \in 1..Len(hits) |-> hits[i]._source]

\* get_index_info, line 145: the index has a custom description
HasCustomInfo_values(self, index) ==
    /\ Len(self._custom_index_info) # 0
    /\ \E i \in 1..Len(self._custom_index_info) :
          self._custom_index_info[i][2] = index

HasCustomInfo(self, index) ==
    /\ Len(self._custom_index_info) # 0
    /\ DictHas(self._custom_index_info, index)

\* get_index_info, lines 152-154
has_extra_info_orzero(self) == self._sample_docs_in_index_info >= 0

has_extra_info(self) == self._sample_docs_in_index_info > 0

\* get_index_info, line 138
missing_indices_all(self, index_names) ==
    {index_names[i] : i \in 1..Len(index_names)} \ self._all_indices

missing_indices(self, index_names) ==
    {index_names[i] : i \in 1..Len(index_names)} \ get_usable_index_names(self)

\* the for loop of get_index_info over the names still to visit; acc holds
\* indices_description and the store calls so far; a mapping fetch or a search
\* of a name the store does not hold raises NotFoundError and ends the loop
RECURSIVE DescribeIndices(_, _, _)
DescribeIndices(self, names, acc) ==
    IF Len(names) = 0 THEN acc
    ELSE
    LET index == names[1] IN
    IF HasCustomInfo(self, index)
    THEN DescribeIndices(self, Tail(names),
             [acc EXCEPT !.descs = Append(@, DictGet(self._custom_index_info, index))])
    ELSE
    LET calls1 == Append(acc.calls, [api |-> "get_mapping", index |-> index]) IN
    IF ~EsExists(index)
    THEN [kind |-> "NotFoundError", descs |-> acc.descs, calls |-> calls1]
    ELSE
    LET index_info == "Index: " \o index \o "\nFields: "
                      \o PyStr(get_index_fields(EsGetMapping(index))) \o "\n"
    IN
    IF ~has_extra_info(self)
    THEN DescribeIndices(self, Tail(names),
             [kind |-> "ok", descs |-> Append(acc.descs, index_info), calls |-> calls1])
    ELSE
    LET calls2 == Append(calls1, [api |-> "search", index |-> index,
                                  size |-> self._sample_docs_in_index_info,
                                  query |-> "match_all"])
        sample_docs == _get_sample_docs(index, self._sample_docs_in_index_info)
        with_docs ==
            IF Len(sample_docs) # 0
            THEN index_info \o "\n/*\nSample documents:\n"
                 \o Join("\n", [i \in 1..Len(sample_docs) |-> PyStr(sample_docs[i])])
                 \o "\n*/"
            ELSE index_info
    IN DescribeIndices(self, Tail(names),
           [kind |-> "ok", descs |-> Append(acc.descs, with_docs), calls |-> calls2])

\* get_index_info, line 162: final_str
final_str_newline(indices_description) == Join("\n", indices_description)

final_str(indices_description) == Join("\n\n", indices_description)

\* get_index_info(index_names); supplied is FALSE for index_names = None.
\* ret.order is all_index_names as the for loop visits it, ret.descs is
\* indices_description, ret.value is final_str
GetIndexInfo(supplied, index_names) ==
    LET all_index_names == get_usable_index_names(engine)
        missing == missing_indices(engine, index_names)
    IN
    /\ engine.state = "ok"
    /\ ~supplied => index_names = <<>>
    /\ IF supplied /\ missing # {}
       THEN /\ ret' = [op |-> "get_index_info", kind |-> "ValueError",
                       supplied |-> supplied, index_names |-> index_names,
                       missing |-> missing]
            /\ calls' = <<>>
       ELSE \E order \in (IF supplied THEN {index_names}
                          ELSE Orders(all_index_names)) :
            LET out == DescribeIndices(engine, order,
                           [kind |-> "ok", descs |-> <<>>, calls |-> <<>>])
            IN /\ ret' = [op |-> "get_index_info", kind |-> out.kind,
                          supplied |-> supplied, index_names |-> index_names,
                          order |-> order, descs |-> out.descs,
                          value |-> IF out.kind = "ok"
                                    THEN final_str(out.descs) ELSE ""]
               /\ calls' = out.calls
    /\ UNCHANGED <<engine, storeVars, fieldVars>>

\* the lists of names get_index_info is called with
\* the bodies passed to run: a match_all search of one hit, and a body whose
\* query type the store does not know
Bodies == {[query |-> "match_all", size |-> 1], [query |-> "bogus"]}

\* es.search(index, body) as the store answers it: a transport fault, a
\* missing index and a malformed body each raise; otherwise the response
\* holds the first `size` hits of the index
EsSearch(index, body, fault) ==
    IF fault
    THEN [kind |-> "ConnectionError", value |-> "Connection refused"]
    ELSE IF ~EsExists(index)
    THEN [kind |-> "NotFoundError", value |-> "no such index [" \o index \o "]"]
    ELSE IF body.query # "match_all"
    THEN [kind |-> "RequestError", value |-> "unknown query [" \o body.query \o "]"]
    ELSE [kind |-> "ok",
          value |-> [hits |-> [hits |->
              SubSeq(esDocs[index], 1, IF body.size < Len(esDocs[index])
                                       THEN body.size ELSE Len(esDocs[index]))]]]

\* run(index_name, body): the outcome and the store calls issued
run_retry(index_name, body, fault) ==
    LET call == [api |-> "search", index |-> index_name, body |-> body]
        r    == EsSearch(index_name, body, fault)
    IN [kind |-> r.kind, value |-> r.value,
        calls |-> IF r.kind = "ok" THEN <<call>> ELSE <<call, call>>]

run(index_name, body, fault) ==
    LET r == EsSearch(index_name, body, fault)
    IN [kind |-> r.kind, value |-> r.value,
        calls |-> <<[api |-> "search", index |-> index_name, body |-> body]>>]

Run(index_name, body, fault) ==
    LET out == run(index_name, body, fault) IN
    /\ engine.state = "ok"
    /\ ret' = [op |-> "run", kind |-> out.kind, value |-> out.value,
               index_name |-> index_name, body |-> body, fault |-> fault]
    /\ calls' = out.calls
    /\ UNCHANGED <<engine, storeVars, fieldVars>>

\* run_no_throw, line 193: `except Exception` catches every error of the store
IsException_notfound(kind) == kind = "NotFoundError"

IsException(kind) == kind \in {"ConnectionError", "NotFoundError", "RequestError"}

\* run_no_throw(index_name, body): the outcome of run, a caught exception
\* replaced by the returned dict {"error": str(e)}
run_no_throw(index_name, body, fault) ==
    LET out == run(index_name, body, fault) IN
    IF out.kind # "ok" /\ IsException(out.kind)
    THEN [kind |-> "ok", value |-> [error |-> out.value], calls |-> out.calls]
    ELSE out

RunNoThrow(index_name, body, fault) ==
    LET out == run_no_throw(index_name, body, fault) IN
    /\ engine.state = "ok"
    /\ ret' = [op |-> "run_no_throw", kind |-> out.kind, value |-> out.value,
               index_name |-> index_name, body |-> body, fault |-> fault]
    /\ calls' = out.calls
    /\ UNCHANGED <<engine, storeVars, fieldVars>>

(***************************************************************************)
(* The tool adapters                                                       *)
(***************************************************************************)
Tools == {"query_es_db", "schema_es_db", "list_indices_es_db", "query_checker_es_db"}

\* the query texts handed to the tools and the texts the language model returns
QueryTexts == {"{'query': {'match_all': {}}}"}

LlmTexts == {"{'query': {'match_all': {}}}", "The query looks correct."}

\* the tools whose _arun is implemented: QueryCheckerTool awaits apredict
SupportsAsync_none(tool) == FALSE

SupportsAsync(tool) == tool = "query_checker_es_db"

\* the message of the NotImplementedError raised by _arun
ArunMessage(tool) ==
    (IF tool = "query_es_db" THEN "QueryESDbTool"
     ELSE IF tool = "schema_es_db" THEN "SchemaEsDbTool"
     ELSE "ListEsDbTool") \o " does not support async"

\* _arun of a tool; text is what the language model answers when it is asked
ToolARun(tool, query, text) ==
    /\ engine.state = "ok"
    /\ IF SupportsAsync(tool)
       THEN /\ ret' = [op |-> "_arun", tool |-> tool, kind |-> "ok",
                       value |-> text, query |-> query]
            /\ calls' = <<[api |-> "llm.apredict", query |-> query]>>
       ELSE /\ ret' = [op |-> "_arun", tool |-> tool,
                       kind |-> "NotImplementedError",
                       value |-> ArunMessage(tool), query |-> query]
            /\ calls' = <<>>
    /\ UNCHANGED <<engine, storeVars, fieldVars>>

\* QueryElasticsearchDatastoreTool._run(index_name, query): what db.run
\* returns or raises
QueryToolRun(index_name, query, fault) ==
    LET out == run(index_name, query, fault) IN
    /\ engine.state = "ok"
    /\ ret' = [op |-> "query_es_db._run", kind |-> out.kind, value |-> out.value,
               index_name |-> index_name, body |-> query, fault |-> fault]
    /\ calls' = out.calls
    /\ UNCHANGED <<engine, storeVars, fieldVars>>

(***************************************************************************)
(* ESChain                                                                 *)
(***************************************************************************)
\* get_index_info(index_names) as a callee: its outcome and its store calls,
\* the usable set visited in the given order when index_names is None
get_index_info(self, supplied, index_names, order) ==
    IF supplied /\ missing_indices(self, index_names) # {}
    THEN [kind |-> "ValueError", value |-> "", calls |-> <<>>]
    ELSE LET out == DescribeIndices(self, IF supplied THEN index_names ELSE order,
                        [kind |-> "ok", descs |-> <<>>, calls |-> <<>>])
         IN [kind |-> out.kind,
             value |-> IF out.kind = "ok" THEN final_str(out.descs) ELSE "",
             calls |-> out.calls]

\* the call self.engine.run(*args) bound to run(self, index_name, body): a
\* call that leaves out a positional parameter raises TypeError before the
\* body of run is entered
engine_run(args, fault) ==
    IF Len(args) = 2
    THEN run(args[1], args[2], fault)
    ELSE [kind |-> "TypeError",
          value |-> "run() missing 1 required positional argument: 'body'",
          calls |-> <<>>]

\* the index_names a caller of the chain puts in inputs
ChainIndexNames == {<<>>, <<"logs">>, <<"metrics">>}

\* ESChain._call(inputs): supplied is FALSE when inputs has no "index_names";
\* dsl_cmd and answer are the texts of the two predictions of the model
ESChain_call(supplied, index_names, return_direct) ==
    /\ engine.state = "ok"
    /\ ~supplied => index_names = <<>>
    /\ \E order \in Orders(get_usable_index_names(engine)) :
       LET index_info == get_index_info(engine, supplied, index_names, order)
           predict    == <<[api |-> "llm.predict", index_info |-> index_info.value]>>
       IN
       IF index_info.kind # "ok"
       THEN /\ ret' = [op |-> "_call", kind |-> index_info.kind, value |-> "",
                       return_direct |-> return_direct,
                       schema |-> [kind |-> index_info.kind,
                                   calls |-> Len(index_info.calls)]]
            /\ calls' = index_info.calls
       ELSE \E dsl_cmd \in QueryTexts, answer \in LlmTexts, fault \in BOOLEAN :
            LET result == engine_run(<<dsl_cmd>>, fault)
                out ==
                    IF result.kind # "ok"
                    THEN [kind |-> result.kind, value |-> result.value,
                          calls |-> predict \o result.calls]
                    ELSE IF return_direct
                    THEN [kind |-> "ok", value |-> [result |-> result.value],
                          calls |-> predict \o result.calls]
                    ELSE [kind |-> "ok", value |-> [result |-> answer],
                          calls |-> predict \o result.calls \o predict]
            IN /\ ret' = [op |-> "_call", kind |-> out.kind, value |-> out.value,
                          return_direct |-> return_direct,
                          schema |-> [kind |-> "ok",
                                      calls |-> Len(index_info.calls)]]
               /\ calls' = index_info.calls \o out.calls
    /\ UNCHANGED <<engine, storeVars, fieldVars>>

MaxNames == 2

NameLists == UNION {[1..n -> Names] : n \in 0..MaxNames}

Init ==
    /\ mapping = <<>>
    /\ all_fields = <<>>
    /\ pcFields = "idle"
    /\ esIndices \in SUBSET IndexNames
    /\ esStreams \in SUBSET StreamNames
    /\ esDocs = [n \in Names |-> <<>>]
    /\ engine = NoEngine
    /\ ret = NoRet
    /\ calls = <<>>

Next ==
    \/ \E index \in IndexNames : create_index(index)
    \/ \E index \in IndexNames : delete_index(index)
    \/ \E index \in IndexNames, doc \in {DocSource(n) : n \in 1..MaxDocs} :
          index_document(index, doc)
    \/ \E ignore_indices \in SUBSET FilterNames,
          include_indices \in SUBSET FilterNames,
          sample_docs_in_index_info \in SampleSizes,
          custom_index_info \in CustomInfos, datastream_support \in BOOLEAN :
          Construct(ignore_indices, include_indices, sample_docs_in_index_info,
                    custom_index_info, datastream_support)
    \/ GetUsableIndexNames
    \/ \E supplied \in BOOLEAN, index_names \in NameLists :
          GetIndexInfo(supplied, index_names)
    \/ \E index_name \in Names, body \in Bodies, fault \in BOOLEAN :
          Run(index_name, body, fault)
    \/ \E index_name \in Names, body \in Bodies, fault \in BOOLEAN :
          RunNoThrow(index_name, body, fault)

Spec == Init /\ [][Next]_vars

\* the tool adapters and the chain over an engine and its store
NextTools ==
    \/ \E index \in IndexNames : create_index(index)
    \/ \E index \in IndexNames : delete_index(index)
    \/ \E index \in IndexNames, doc \in {DocSource(n) : n \in 1..MaxDocs} :
          index_document(index, doc)
    \/ \E ignore_indices \in SUBSET FilterNames,
          include_indices \in SUBSET FilterNames,
          sample_docs_in_index_info \in SampleSizes,
          custom_index_info \in CustomInfos, datastream_support \in BOOLEAN :
          Construct(ignore_indices, include_indices, sample_docs_in_index_info,
                    custom_index_info, datastream_support)
    \/ \E tool \in Tools, query \in QueryTexts, text \in LlmTexts :
          ToolARun(tool, query, text)
    \/ \E index_name \in Names, query \in Bodies, fault \in BOOLEAN :
          QueryToolRun(index_name, query, fault)
    \/ \E supplied \in BOOLEAN, index_names \in ChainIndexNames,
          return_direct \in BOOLEAN :
          ESChain_call(supplied, index_names, return_direct)

SpecTools == Init /\ [][NextTools]_vars

\* the document helpers of ElasticSearchDatabase over the store
NextDocs ==
    \/ \E index \in IndexNames : create_index(index)
    \/ \E index \in IndexNames : delete_index(index)
    \/ \E index \in IndexNames, doc \in {DocSource(n) : n \in 1..MaxDocs} :
          index_document(index, doc)
    \/ \E index \in IndexNames, doc_id \in 1..MaxDocs :
          get_document_by_id(index, doc_id)
    \/ \E index \in IndexNames, doc_id \in 1..MaxDocs :
          delete_document_by_id(index, doc_id)
    \/ \E index \in IndexNames, doc_id \in 1..MaxDocs :
          update_document_by_id(index, doc_id, UpdateDoc)

SpecDocs == Init /\ [][NextDocs]_vars

(***************************************************************************)
(* find_fields on its own: every mapping tree of at most MaxNodes entries. *)
(***************************************************************************)
InitFields ==
    /\ mapping \in MappingsOf(MaxNodes)
    /\ all_fields = <<>>
    /\ pcFields = "call"
    /\ esIndices = {}
    /\ esStreams = {}
    /\ esDocs = [n \in Names |-> <<>>]
    /\ engine = NoEngine
    /\ ret = NoRet
    /\ calls = <<>>

FindFields ==
    /\ pcFields = "call"
    /\ all_fields' = find_fields(mapping)
    /\ pcFields' = "done"
    /\ UNCHANGED <<mapping, storeVars, engine, ret, calls>>

NextFields == FindFields

SpecFields == InitFields /\ [][NextFields]_vars

(***************************************************************************)
(* Properties of the constructor.                                          *)
(***************************************************************************)
\* the usable set as the data model defines it: the include filter when it is
\* non-empty, else every discovered name outside the exclude filter
UsableSet(e) ==
    {n \in FilterNames :
        \/ e._include_indices # {} /\ n \in e._include_indices
        \/ e._include_indices = {} /\ n \in e._all_indices
                                   /\ n \notin e._ignore_indices}

\* the names the store lists for a constructor call with the given flag
DiscoveredNames(datastream_support) ==
    {n \in Names : \/ n \in esIndices
                   \/ datastream_support /\ n \in esStreams}

\* C1: a constructor call given a non-empty include_indices and a non-empty
\* ignore_indices raises the ValueError for conflicting filters and leaves no
\* engine, so no engine has both of its filters non-empty.
C1_ConflictingFiltersRejected ==
    /\ (ret.op = "__init__" /\ ret.args.include_indices # {}
                            /\ ret.args.ignore_indices # {})
          => (ret.kind = "ValueError" /\ ret.what = "both"
                                      /\ engine.state = "failed")
    /\ engine.state = "ok"
          => (engine._include_indices = {} \/ engine._ignore_indices = {})

C1_Witness ==
    /\ ret.op = "__init__"
    /\ ret.args.include_indices = {"logs"}
    /\ ret.args.ignore_indices = {"metrics"}
    /\ ret.kind = "ValueError"
    /\ esIndices = {"logs"}
    /\ esStreams = {"metrics"}

\* C2: a constructor call whose filters do not conflict raises ValueError
\* exactly when a name of include_indices or ignore_indices is not among the
\* discovered names (the store's indices, and its data streams exactly when
\* datastream_support is set); the error names the filter and exactly the
\* supplied names that are missing; a call that succeeds keeps the discovered
\* names as _all_indices.
C2_UnknownFilterNamesRejected ==
    (ret.op = "__init__" /\ ~(ret.args.include_indices # {}
                              /\ ret.args.ignore_indices # {}))
    => LET supplied == ret.args.include_indices \cup ret.args.ignore_indices
           absent   == supplied \ DiscoveredNames(ret.args.datastream_support)
       IN /\ (ret.kind = "ValueError") <=> (absent # {})
          /\ ret.kind \in {"ValueError", "ok"}
          /\ ret.kind = "ValueError"
                => /\ ret.missing = absent
                   /\ ret.what = IF ret.args.include_indices # {}
                                 THEN "include_indices" ELSE "ignore_indices"
                   /\ engine.state = "failed"
          /\ ret.kind = "ok"
                => /\ engine.state = "ok"
                   /\ engine._all_indices
                        = DiscoveredNames(ret.args.datastream_support)

C2_Witness ==
    /\ ret.op = "__init__"
    /\ ret.kind = "ValueError"
    /\ ret.args.include_indices = {"ghost", "logs", "metrics"}
    /\ ~ret.args.datastream_support
    /\ esIndices = {"logs"}
    /\ esStreams = {"metrics"}
    /\ ret.missing = {"ghost", "metrics"}

\* C3: get_usable_index_names returns the include filter when it is
\* non-empty, and otherwise the discovered names minus the exclude filter.
C3_UsableNames ==
    ret.op = "get_usable_index_names"
    => /\ engine.state = "ok"
       /\ ret.value = UsableSet(engine)
       /\ engine._include_indices # {} => ret.value = engine._include_indices
       /\ engine._include_indices = {}
             => ret.value = engine._all_indices \ engine._ignore_indices

C3_Witness ==
    /\ ret.op = "get_usable_index_names"
    /\ engine._all_indices = {"logs", "metrics"}
    /\ engine._include_indices = {"metrics"}
    /\ ret.value = {"metrics"}

\* C4 as claimed: whenever the constructor raises ValueError, for conflicting
\* filters or for unknown names, it has issued no call to the store.
C4_NoStoreCallBeforeAnyConfigError ==
    (ret.op = "__init__" /\ ret.kind = "ValueError") => calls = <<>>

\* C4 as amended: a constructor call that raises for conflicting filters has
\* issued no call to the store; one that raises for unknown names has issued
\* the listing calls and nothing else: get_alias, then get_data_stream
\* exactly when datastream_support is set.
C4_ConfigErrorStoreCalls ==
    (ret.op = "__init__" /\ ret.kind = "ValueError")
    => IF ret.args.include_indices # {} /\ ret.args.ignore_indices # {}
       THEN calls = <<>>
       ELSE calls = IF ret.args.datastream_support
                    THEN <<[api |-> "get_alias"], [api |-> "get_data_stream"]>>
                    ELSE <<[api |-> "get_alias"]>>

C4_Witness ==
    /\ ret.op = "__init__"
    /\ ret.kind = "ValueError"
    /\ ret.what = "ignore_indices"
    /\ ~ret.args.datastream_support
    /\ calls = <<[api |-> "get_alias"]>>

(***************************************************************************)
(* Properties of find_fields.                                              *)
(***************************************************************************)
\* the field paths of a mapping tree of at most MaxNodes entries
Paths == UNION {[1..n -> Keys] : n \in 1..MaxNodes}

IsLeaf(value) ==
    IsDict(value) /\ "type" \in DOMAIN value /\ "properties" \notin DOMAIN value

IsObject(value) == IsDict(value) /\ "properties" \in DOMAIN value

\* the nodes (none or one) found at a path by going down `properties` only
RECURSIVE ViaProperties(_, _)
ViaProperties(m, path) ==
    IF ~DictHas(m, path[1]) THEN {}
    ELSE LET value == DictGet(m, path[1]) IN
         IF Len(path) = 1 THEN {value}
         ELSE IF IsObject(value)
         THEN ViaProperties(value["properties"], Tail(path))
         ELSE {}

\* the nodes (none or one) found at a path by going down `properties`, and
\* down the `fields` of a leaf
RECURSIVE ViaAny(_, _)
ViaAny(m, path) ==
    IF ~DictHas(m, path[1]) THEN {}
    ELSE LET value == DictGet(m, path[1]) IN
         IF Len(path) = 1 THEN {value}
         ELSE IF IsObject(value)
         THEN ViaAny(value["properties"], Tail(path))
         ELSE IF IsLeaf(value) /\ "fields" \in DOMAIN value
         THEN ViaAny(value["fields"], Tail(path))
         ELSE {}

LeafPaths(m) == {p \in Paths : \E value \in ViaAny(m, p) : IsLeaf(value)}

NestedExample == << <<"a", [properties |-> << <<"b", [type |-> "keyword"]>> >>]>> >>

MultiFieldExample ==
    << <<"a", [type |-> "text", fields |-> << <<"b", [type |-> "keyword"]>> >>]>> >>

\* C5: in the dict find_fields returns, a node with `properties` has no
\* entry of its own and its children are entered under the path extended by
\* its key; a node with `type` and no `properties` is entered as dotted path
\* -> type; the dict has exactly one entry per leaf, under its full dotted
\* path, and the nested example yields exactly {"a.b": "keyword"}.
C5_OneEntryPerLeaf ==
    pcFields = "done"
    => /\ \A p \in Paths : \A value \in ViaProperties(mapping, p) :
             /\ IsObject(value) => ~DictHas(all_fields, Join(".", p))
             /\ IsLeaf(value)
                   => /\ DictHas(all_fields, Join(".", p))
                      /\ DictGet(all_fields, Join(".", p)) = value["type"]
       /\ DictKeys(all_fields) = {Join(".", p) : p \in LeafPaths(mapping)}
       /\ Len(all_fields) = Cardinality(LeafPaths(mapping))
       /\ mapping = NestedExample => all_fields = << <<"a.b", "keyword">> >>

C5_Witness ==
    /\ pcFields = "done"
    /\ mapping = NestedExample
    /\ all_fields = << <<"a.b", "keyword">> >>

\* C6: for a leaf that has a `fields` sub-mapping, the dict find_fields
\* returns holds the leaf's path with the leaf's type and, for every
\* sub-field that is a leaf itself, the path parent.subfield with the
\* sub-field's type.
C6_MultiFields ==
    pcFields = "done"
    => \A p \in Paths : \A value \in ViaAny(mapping, p) :
          (IsLeaf(value) /\ "fields" \in DOMAIN value)
          => /\ DictHas(all_fields, Join(".", p))
             /\ DictGet(all_fields, Join(".", p)) = value["type"]
             /\ \A k \in DictKeys(value["fields"]) :
                   LET sub == DictGet(value["fields"], k)
                       subpath == Join(".", Append(p, k))
                   IN IsLeaf(sub)
                      => /\ DictHas(all_fields, subpath)
                         /\ DictGet(all_fields, subpath) = sub["type"]

C6_Witness ==
    /\ pcFields = "done"
    /\ mapping = MultiFieldExample
    /\ all_fields = << <<"a", "text">>, <<"a.b", "keyword">> >>

(***************************************************************************)
(* Properties of get_index_info.                                           *)
(***************************************************************************)
\* s holds sub
Contains(s, sub) ==
    \E i \in 1..(Len(s) - Len(sub) + 1) : SubSeq(s, i, i + Len(sub) - 1) = sub

\* the text of the field maps and of the documents of the store, written out
ExpectedFieldsText(name) ==
    IF name = "logs"
    THEN "{'host.name': 'keyword', 'msg': 'text', 'msg.raw': 'keyword'}"
    ELSE "{'cpu': 'float'}"

ExpectedDocText(n) == "{'msg': 'event " \o ToString(n) \o "', 'lvl': 'warn'}"

RECURSIVE ExpectedDocLines(_)
ExpectedDocLines(n) ==
    IF n <= 0 THEN ""
    ELSE IF n = 1 THEN ExpectedDocText(1)
    ELSE ExpectedDocLines(n - 1) \o "\n" \o ExpectedDocText(n)

ExpectedHeader(name) ==
    "Index: " \o name \o "\nFields: " \o ExpectedFieldsText(name) \o "\n"

\* a fenced block of the first n documents
ExpectedFence(n) == "\n/*\nSample documents:\n" \o ExpectedDocLines(n) \o "\n*/"

\* how many documents a search of the given size finds in an index
Found(name, size) ==
    IF size < Len(esDocs[name]) THEN size ELSE Len(esDocs[name])

Overridden(name) == DictHas(engine._custom_index_info, name)

SearchesOf(name) ==
    SelectSeq(calls, LAMBDA c : c.api = "search" /\ c.index = name)

\* C7: get_index_info called with index_names raises ValueError exactly when
\* a supplied name is outside the usable set; the error names exactly the
\* supplied names that are not usable and no store call has been issued.
C7_UnknownIndexRejected ==
    (ret.op = "get_index_info" /\ ret.supplied)
    => LET given == {ret.index_names[i] : i \in 1..Len(ret.index_names)}
           unusable == given \ UsableSet(engine)
       IN /\ (ret.kind = "ValueError") <=> (unusable # {})
          /\ ret.kind = "ValueError"
                => (ret.missing = unusable /\ calls = <<>>)
          /\ ret.kind # "ValueError" => ret.order = ret.index_names

C7_Witness ==
    /\ ret.op = "get_index_info"
    /\ ret.supplied
    /\ ret.index_names = <<"logs", "metrics">>
    /\ engine._all_indices = {"logs", "metrics"}
    /\ engine._ignore_indices = {"metrics"}
    /\ ret.kind = "ValueError"
    /\ ret.missing = {"metrics"}

\* C8: for every requested index with a registered custom description,
\* get_index_info emits that description verbatim as the block of the index
\* and issues no mapping fetch and no search for the index.
C8_CustomOverride ==
    (ret.op = "get_index_info" /\ ret.kind \in {"ok", "NotFoundError"})
    => \A k \in 1..Len(ret.order) :
          Overridden(ret.order[k])
          => /\ \A i \in 1..Len(calls) : calls[i].index # ret.order[k]
             /\ k <= Len(ret.descs) => ret.descs[k] = CustomText(ret.order[k])

C8_Witness ==
    /\ ret.op = "get_index_info"
    /\ ret.kind = "ok"
    /\ ret.order = <<"logs">>
    /\ Overridden("logs")
    /\ engine._sample_docs_in_index_info = 2
    /\ Len(esDocs["logs"]) = 2
    /\ ret.value = CustomText("logs")
    /\ calls = <<>>

\* C9: with a sample size of 0, get_index_info called without index_names
\* issues no search to the store and its output holds no "/*" block.
C9_NoSamplingAtZero ==
    (ret.op = "get_index_info" /\ ~ret.supplied
        /\ engine._sample_docs_in_index_info = 0)
    => /\ \A i \in 1..Len(calls) : calls[i].api # "search"
       /\ ~Contains(ret.value, "/*")
       /\ \A k \in 1..Len(ret.descs) : ~Contains(ret.descs[k], "Sample documents")

C9_Witness ==
    /\ ret.op = "get_index_info"
    /\ ~ret.supplied
    /\ engine._sample_docs_in_index_info = 0
    /\ ret.kind = "ok"
    /\ "logs" \in UsableSet(engine)
    /\ ~Overridden("logs")
    /\ Len(esDocs["logs"]) = 2
    /\ calls # <<>>

\* C10 as claimed: the block of every requested index without a custom
\* description is "Index: <name>\nFields: <FieldMap>\n", followed whenever
\* the sample size is above 0 by a fenced block of the documents one
\* match_all search of that size finds.
C10_FencedBlockWheneverSampling ==
    (ret.op = "get_index_info" /\ ret.kind = "ok")
    => \A k \in 1..Len(ret.order) :
          LET name == ret.order[k]
              size == engine._sample_docs_in_index_info
          IN ~Overridden(name)
             => ret.descs[k] = ExpectedHeader(name)
                  \o (IF size > 0 THEN ExpectedFence(Found(name, size)) ELSE "")

\* C10 as amended: the block of every requested index without a custom
\* description is "Index: <name>\nFields: <FieldMap>\n", followed, when the
\* sample size is above 0 and the search finds a document, by a fenced block
\* of the documents found, each in its literal form on a line of its own, and
\* by nothing when the search finds none; the documents come from one
\* match_all search per block with size = sample size, so a block holds at
\* most that many.
C10_IndexBlock ==
    (ret.op = "get_index_info" /\ ret.kind = "ok")
    => \A k \in 1..Len(ret.order) :
          LET name == ret.order[k]
              size == engine._sample_docs_in_index_info
              blocks == {j \in 1..Len(ret.order) : ret.order[j] = name}
          IN ~Overridden(name)
             => /\ ret.descs[k] = ExpectedHeader(name)
                     \o (IF size > 0 /\ Found(name, size) > 0
                         THEN ExpectedFence(Found(name, size)) ELSE "")
                /\ Len(SearchesOf(name))
                     = IF size > 0 THEN Cardinality(blocks) ELSE 0
                /\ \A i \in 1..Len(SearchesOf(name)) :
                      /\ SearchesOf(name)[i].size = size
                      /\ SearchesOf(name)[i].query = "match_all"

C10_Witness ==
    /\ ret.op = "get_index_info"
    /\ ret.kind = "ok"
    /\ ret.order = <<"logs">>
    /\ ~Overridden("logs")
    /\ engine._sample_docs_in_index_info = 1
    /\ Len(esDocs["logs"]) = 2
    /\ ret.value = ExpectedHeader("logs") \o ExpectedFence(1)

\* the block of one index: its custom description, or its header followed by
\* the fenced documents a sampling engine finds
ExpectedBlock(name) ==
    IF Overridden(name) THEN CustomText(name)
    ELSE ExpectedHeader(name)
         \o (IF engine._sample_docs_in_index_info > 0
                /\ Found(name, engine._sample_docs_in_index_info) > 0
             THEN ExpectedFence(Found(name, engine._sample_docs_in_index_info))
             ELSE "")

\* the first n blocks, each but the first preceded by an empty line
RECURSIVE ExpectedBlocks(_, _)
ExpectedBlocks(names, n) ==
    IF n = 0 THEN ""
    ELSE IF n = 1 THEN ExpectedBlock(names[1])
    ELSE ExpectedBlocks(names, n - 1) \o "\n\n" \o ExpectedBlock(names[n])

\* C11: a successful get_index_info returns one block per requested index, in
\* the order the names were supplied, the blocks joined by a double newline;
\* the result is the empty string when no index is requested.
C11_BlocksJoinedInOrder ==
    (ret.op = "get_index_info" /\ ret.kind = "ok")
    => /\ ret.supplied => ret.order = ret.index_names
       /\ Len(ret.descs) = Len(ret.order)
       /\ \A i \in 1..Len(ret.order) : ret.descs[i] = ExpectedBlock(ret.order[i])
       /\ ret.value = ExpectedBlocks(ret.order, Len(ret.order))
       /\ Len(ret.order) = 0 => ret.value = ""

C11_Witness ==
    /\ ret.op = "get_index_info"
    /\ ret.kind = "ok"
    /\ ret.supplied
    /\ ret.index_names = <<"metrics", "logs">>
    /\ ~Overridden("logs")
    /\ ret.value = ExpectedBlock("metrics") \o "\n\n" \o ExpectedBlock("logs")

\* the one search call of a query executed with the given index and body
SearchCall(index_name, body) ==
    [api |-> "search", index |-> index_name, body |-> body]

\* C12: run(index, body) issues exactly one search call, with the given index
\* and the body unchanged, and returns the store's response as it is; a failure
\* of the store is raised to the caller after that one call, with no retry.
C12_RunIsOneVerbatimSearch ==
    ret.op = "run"
    => /\ calls = <<SearchCall(ret.index_name, ret.body)>>
       /\ ret.kind = EsSearch(ret.index_name, ret.body, ret.fault).kind
       /\ ret.value = EsSearch(ret.index_name, ret.body, ret.fault).value
       /\ (ret.kind = "ok" /\ Len(esDocs[ret.index_name]) > 0)
          => ret.value.hits.hits = <<[_id |-> 1, _source |-> DocSource(1)]>>

C12_Witness ==
    /\ ret.op = "run"
    /\ ret.kind = "ok"
    /\ ret.index_name = "logs"
    /\ Len(ret.value.hits.hits) = 1
    /\ Len(calls) = 1

\* C13: run_no_throw never raises: when the search fails (transport fault,
\* missing index, malformed query) it returns {"error": <message>} with the
\* message of the failure, and when the search succeeds it returns the store's
\* response, which is what run returns; the result is one or the other.
C13_RunNoThrowNeverRaises ==
    ret.op = "run_no_throw"
    => LET r == EsSearch(ret.index_name, ret.body, ret.fault) IN
       /\ ret.kind = "ok"
       /\ calls = <<SearchCall(ret.index_name, ret.body)>>
       /\ IF r.kind = "ok"
          THEN ret.value = r.value /\ DOMAIN ret.value = {"hits"}
          ELSE ret.value = [error |-> r.value] /\ DOMAIN ret.value = {"error"}

C13_Witness ==
    /\ ret.op = "run_no_throw"
    /\ ret.kind = "ok"
    /\ ~ret.fault
    /\ EsExists(ret.index_name)
    /\ ret.value = [error |-> "unknown query [bogus]"]

\* C14 as stated: the async form of every tool adapter (query, schema info,
\* list indices, query checker) fails with an unsupported-operation error and
\* performs no store call and no model call.
C14_EveryAsyncFormUnsupported ==
    ret.op = "_arun" => (ret.kind = "NotImplementedError" /\ calls = <<>>)

\* C14, amended: the async form of the query, schema info and list indices
\* adapters fails with an unsupported-operation error and performs no store
\* call and no model call; the async form of the query checker performs one
\* model call with the query, no store call, and returns the model's text.
C14_AsyncForms ==
    ret.op = "_arun"
    => IF ret.tool \in {"query_es_db", "schema_es_db", "list_indices_es_db"}
       THEN /\ ret.kind = "NotImplementedError"
            /\ Contains(ret.value, "does not support async")
            /\ calls = <<>>
       ELSE /\ ret.tool = "query_checker_es_db"
            /\ ret.kind = "ok"
            /\ ret.value \in LlmTexts
            /\ calls = <<[api |-> "llm.apredict", query |-> ret.query]>>

C14_Witness ==
    /\ ret.op = "_arun"
    /\ ret.tool = "query_checker_es_db"
    /\ ret.kind = "ok"
    /\ Len(calls) = 1
    /\ calls[1].api = "llm.apredict"

\* C15: the query tool (query_es_db) returns the store's result when the query
\* succeeds, and when the query is not correct it returns an error message
\* rather than raising.
C15_QueryToolReturnsErrorMessage ==
    ret.op = "query_es_db._run"
    => LET r == EsSearch(ret.index_name, ret.body, ret.fault) IN
       /\ ret.kind = "ok"
       /\ r.kind = "ok" => ret.value = r.value
       /\ r.kind # "ok" => ret.value = [error |-> r.value]

\* C16: a get_document_by_id that directly follows index_document, for the
\* same index and the id index_document returned, returns the content that
\* was indexed; a get_document_by_id that directly follows a successful
\* delete_document_by_id of the same index and id returns the not-found
\* result None, which is no document content, the empty one included.
C16_RoundTrip ==
    [][/\ (/\ ret.op = "index_document"
            /\ ret'.op = "get_document_by_id"
            /\ ret'.index = ret.index
            /\ ret'.doc_id = ret.value)
           => (ret'.kind = "ok" /\ ret'.value = Some(ret.doc))
       /\ (/\ ret.op = "delete_document_by_id"
            /\ ret.kind = "ok"
            /\ ret'.op = "get_document_by_id"
            /\ ret'.index = ret.index
            /\ ret'.doc_id = ret.doc_id)
           => (ret'.kind = "ok" /\ ret'.value = None /\ ret'.value # Some(<<>>))
      ]_vars

\* document 1 is fetched after it was indexed and deleted: document 2, indexed
\* after it, is still there
C16_Witness ==
    /\ ret.op = "get_document_by_id"
    /\ ret.index = "logs"
    /\ ret.doc_id = 1
    /\ ret.value = None
    /\ DocIds(esDocs["logs"]) = {2}

\* the calls a turn of the chain issued after its schema description was built
TurnCalls == SubSeq(calls, ret.schema.calls + 1, Len(calls))

\* C17: a turn of ESChain._call whose schema description was built obtains
\* the query text from the model, then executes that query with one search of
\* the store, then obtains the final answer from the model; with return_direct
\* the search is the last call of the turn and the result is the query result.
C17_OneTurnOfTheChain ==
    (ret.op = "_call" /\ ret.schema.kind = "ok")
    => /\ Len(TurnCalls) >= 2
       /\ TurnCalls[1].api = "llm.predict"
       /\ TurnCalls[2].api = "search"
       /\ Len(SelectSeq(calls, LAMBDA c : c.api = "search"
                                          /\ "body" \in DOMAIN c)) = 1
       /\ IF ret.return_direct
          THEN Len(TurnCalls) = 2
          ELSE Len(TurnCalls) = 3 /\ TurnCalls[3].api = "llm.predict"

\* C18: the usable set is fixed at construction: no operation on a constructed
\* engine (get_usable_index_names, get_index_info, run, run_no_throw) and no
\* change of the store's indices changes the usable set of the engine, and
\* every get_usable_index_names returns that set and issues no store call.
C18_UsableSetFixed ==
    [][/\ engine.state = "ok"
          => (engine'.state = "ok" /\ UsableSet(engine') = UsableSet(engine))
       /\ ret'.op = "get_usable_index_names"
          => (ret'.value = UsableSet(engine) /\ calls' = <<>>)
      ]_vars

\* the engine still lists index logs after the store has dropped it
C18_Witness ==
    /\ ret.op = "get_usable_index_names"
    /\ engine._include_indices = {}
    /\ ret.value = {"logs"}
    /\ "logs" \notin esIndices
    /\ calls = <<>>

====
